---- MODULE Spec2Model ----
(***************************************************************************)
(* Model of src/main.py: the Seattle building-permit pipeline.  main()      *)
(* checks its dependencies, loads and cleans building_permits.csv and then  *)
(* runs the four stage functions in sequence.  Timestamps are day-granular  *)
(* integers YYYYMMDD, so integer order is chronological order.  A nullable  *)
(* cell (NaN / NaT) is the empty tuple, a present value v is <<v>>.         *)
(***************************************************************************)
EXTENDS Integers, Sequences, FiniteSets, TLC

\* Largest number of data rows of building_permits.csv that is explored.
MaxRows == 3

-----------------------------------------------------------------------------
(* Nullable cells of a DataFrame column.                                   *)

NaN == <<>>
Some(v) == <<v>>
IsNull(x) == x = NaN

-----------------------------------------------------------------------------
(* The raw text of the CSV cells.                                          *)

\* AppliedDate cells: empty, not a date, and three dates around the cutoff.
DateText == {"", "not a date", "2024-01-15", "2024-01-16", "2024-03-20"}

\* The timestamp of a well-formed date text.
DateValue(s) ==
    CASE s = "2024-01-15" -> 20240115
      [] s = "2024-01-16" -> 20240116
      [] s = "2024-03-20" -> 20240320

\* The number of a numeric cost text.
CostValue(s) ==
    CASE s = "100" -> 100
      [] s = "300" -> 300

\* Alphabetical rank of a permit type (Python's string order).
TypeRank(t) ==
    CASE t = "Addition" -> 1
      [] t = "New" -> 2

\* Rows with both coordinates and a parseable date later than 2024-01-15:
\* every cost and type in March 2024, every type on 2024-01-16.
PlainRows ==
    [AppliedDate : {"2024-03-20"},
     EstProjectCost : {"N/A", "100", "300"},
     Latitude : {"47.6"},
     Longitude : {"-122.3"},
     PermitTypeMapped : {"Addition", "New"}]
    \cup
    [AppliedDate : {"2024-01-16"},
     EstProjectCost : {"100"},
     Latitude : {"47.6"},
     Longitude : {"-122.3"},
     PermitTypeMapped : {"Addition", "New"}]

\* Rows with one missing, malformed or old cell.
OddRows ==
    {[AppliedDate |-> d, EstProjectCost |-> c, Latitude |-> la,
      Longitude |-> lo, PermitTypeMapped |-> "Addition"] :
        <<d, c, la, lo>> \in
            {<<"2024-03-20", "100", "", "-122.3">>,
             <<"2024-03-20", "100", "47.6", "">>,
             <<"", "100", "47.6", "-122.3">>,
             <<"not a date", "100", "47.6", "-122.3">>,
             <<"2024-01-15", "100", "47.6", "-122.3">>,
             <<"2024-03-20", "", "47.6", "-122.3">>}}

RawRows == PlainRows \cup OddRows

RECURSIVE SeqsUpTo(_, _)
SeqsUpTo(S, n) ==
    IF n = 0 THEN {<<>>}
    ELSE LET shorter == SeqsUpTo(S, n - 1)
         IN shorter \cup {Append(q, x) : q \in {r \in shorter : Len(r) = n - 1}, x \in S}

\* building_permits.csv: absent, lacking a required column, or a table of rows.
NoFile == [exists |-> FALSE, columns |-> FALSE, rows |-> <<>>]
NoColumns == [exists |-> TRUE, columns |-> FALSE, rows |-> <<>>]
CsvFiles ==
    {NoFile, NoColumns} \cup
    {[exists |-> TRUE, columns |-> TRUE, rows |-> r] : r \in SeqsUpTo(RawRows, MaxRows)}

\* Values datetime.now() returns.
Nows == {20260115, 20260116}

-----------------------------------------------------------------------------
(* load_and_clean_data: parsing (lines 38-45).                             *)

\* pd.read_csv: one record per data row, labelled by its position; an empty
\* cell is NaN, any other cell keeps its text.  PermitTypeMapped is never
\* empty in the rows explored and is kept as the plain string.
ReadCell(s) == IF s = "" THEN NaN ELSE Some(s)

ReadCsv(rows) ==
    [i \in 1..Len(rows) |->
        [idx |-> i,
         AppliedDate |-> ReadCell(rows[i].AppliedDate),
         EstProjectCost |-> ReadCell(rows[i].EstProjectCost),
         Latitude |-> ReadCell(rows[i].Latitude),
         Longitude |-> ReadCell(rows[i].Longitude),
         PermitTypeMapped |-> rows[i].PermitTypeMapped]]

IsDateText(s) == s \in {"2024-01-15", "2024-01-16", "2024-03-20"}
IsNumberText(s) == s \in {"100", "300"}

\* pd.to_datetime(column) with the default errors='raise': the conversion of
\* the whole column raises when one cell is neither missing nor a date.
ToDatetimeRaises(df) ==
    \E i \in 1..Len(df) :
        ~IsNull(df[i].AppliedDate) /\ ~IsDateText(df[i].AppliedDate[1])

ToDatetimeCell(c) == IF IsNull(c) THEN NaN ELSE Some(DateValue(c[1]))

\* pd.to_numeric(column, errors='coerce'): a non-numeric cell becomes NaN.
ToNumericCell(c) ==
    IF IsNull(c) \/ ~IsNumberText(c[1]) THEN NaN ELSE Some(CostValue(c[1]))

\* The frame after lines 42 and 45 (defined when to_datetime does not raise).
ConvertColumns(df) ==
    [i \in 1..Len(df) |->
        [df[i] EXCEPT !.AppliedDate = ToDatetimeCell(@),
                      !.EstProjectCost = ToNumericCell(@)]]

-----------------------------------------------------------------------------
(* load_and_clean_data: cleaning (lines 47-58).                            *)

\* df.dropna(subset=['Latitude', 'Longitude']) keeps a row with both present.
HasCoordinates(r) == ~IsNull(r.Latitude) /\ ~IsNull(r.Longitude)

DropNa(df) == SelectSeq(df, HasCoordinates)

\* datetime.now() - pd.DateOffset(years=2): same month and day two years
\* earlier; 29 February falls back to 28 February.
TwoYearsAgo(t) ==
    IF t % 10000 = 229 THEN t - 20001 ELSE t - 20000

\* The mask with >= in place of >: a variant that would keep a record dated
\* exactly at the cutoff.
RecentOrEqual(date, cutoff) == ~IsNull(date) /\ date[1] >= cutoff

\* One cell of the mask df['AppliedDate'] > two_years_ago; NaT compares False.
Recent(date, cutoff) == ~IsNull(date) /\ date[1] > cutoff

FilterRecent(df, cutoff) ==
    LET keep(r) == Recent(r.AppliedDate, cutoff)
    IN SelectSeq(df, keep)

\* The frame load_and_clean_data returns for a parsed frame and a clock value.
CleanData(df, t) == FilterRecent(DropNa(df), TwoYearsAgo(t))

-----------------------------------------------------------------------------
(* Helpers over columns.                                                   *)

\* The non-null values of a column of numbers, in row order.
RECURSIVE NonNull(_)
NonNull(col) ==
    IF col = <<>> THEN <<>>
    ELSE IF IsNull(Head(col)) THEN NonNull(Tail(col))
         ELSE <<Head(col)[1]>> \o NonNull(Tail(col))

RECURSIVE Sum(_)
Sum(xs) == IF xs = <<>> THEN 0 ELSE Head(xs) + Sum(Tail(xs))

RECURSIVE InsertSorted(_, _)
InsertSorted(x, xs) ==
    IF xs = <<>> THEN <<x>>
    ELSE IF x < Head(xs) THEN <<x>> \o xs
         ELSE <<Head(xs)>> \o InsertSorted(x, Tail(xs))

RECURSIVE Sorted(_)
Sorted(xs) == IF xs = <<>> THEN <<>> ELSE InsertSorted(Head(xs), Sorted(Tail(xs)))

Costs(df) == NonNull([i \in 1..Len(df) |-> df[i].EstProjectCost])
Dates(df) == NonNull([i \in 1..Len(df) |-> df[i].AppliedDate])

\* Series.sum(): NaN cells are skipped, the empty sum is 0.
SeriesSum(df) == Sum(Costs(df))

\* Series.mean(): the fraction <<sum, n>> of the non-null cells, NaN if none.
SeriesMean(df) ==
    LET xs == Costs(df)
    IN IF xs = <<>> THEN NaN ELSE Some(<<Sum(xs), Len(xs)>>)

\* Series.median(): the middle non-null cell, or the mean of the two middle
\* ones, as a fraction; NaN if there is none.
SeriesMedian(df) ==
    LET xs == Sorted(Costs(df))
        n == Len(xs)
    IN IF n = 0 THEN NaN
       ELSE IF n % 2 = 1 THEN Some(<<xs[(n + 1) \div 2], 1>>)
            ELSE Some(<<xs[n \div 2] + xs[n \div 2 + 1], 2>>)

\* Series.count(): the number of non-null cells.
SeriesCount(df) == Len(Costs(df))

\* a/b > c/d for fractions with positive denominators.
FracGreater(p, q) == p[1] * q[2] > q[1] * p[2]

-----------------------------------------------------------------------------
(* create_time_series: df.resample('ME', on='AppliedDate').size()          *)

MonthOf(t) == t \div 100

NextMonth(ym) == IF ym % 100 = 12 THEN ym + 89 ELSE ym + 1

IsLeap(y) == y % 4 = 0 /\ (y % 100 # 0 \/ y % 400 = 0)

\* The label of a month-end ('ME') bin: the last day of the month.
MonthEnd(ym) ==
    LET m == ym % 100
        last == IF m = 2 THEN (IF IsLeap(ym \div 100) THEN 29 ELSE 28)
                ELSE IF m \in {4, 6, 9, 11} THEN 30 ELSE 31
    IN ym * 100 + last

RECURSIVE MonthsFromTo(_, _)
MonthsFromTo(a, b) ==
    IF a > b THEN <<>> ELSE <<a>> \o MonthsFromTo(NextMonth(a), b)

SizeIn(df, ym) == Cardinality({i \in 1..Len(df) : MonthOf(df[i].AppliedDate[1]) = ym})

\* A variant of the bins: only the months that hold a record, as a groupby
\* over the month would give.
OccupiedBins(df) ==
    LET ds == Sorted(Dates(df))
        all == IF ds = <<>> THEN <<>> ELSE MonthsFromTo(MonthOf(ds[1]), MonthOf(ds[Len(ds)]))
        occupied(ym) == SizeIn(df, ym) > 0
    IN SelectSeq(all, occupied)

\* The bins of the resampler: every month from the month of the earliest
\* AppliedDate to the month of the latest, whether or not it holds a record.
ResampleBins(df) ==
    LET ds == Sorted(Dates(df))
    IN IF ds = <<>> THEN <<>> ELSE MonthsFromTo(MonthOf(ds[1]), MonthOf(ds[Len(ds)]))

\* monthly_permits: one (Date, Number of Permits) row per bin, in bin order.
MonthlyPermits(df) ==
    LET bins == ResampleBins(df)
    IN [k \in 1..Len(bins) |->
           [Date |-> MonthEnd(bins[k]), NumberOfPermits |-> SizeIn(df, bins[k])]]

-----------------------------------------------------------------------------
(* create_permit_type_analysis                                             *)

Types(df) == {df[i].PermitTypeMapped : i \in 1..Len(df)}

\* The group keys in sorted order (groupby sorts its keys).
RECURSIVE SortedKeys(_)
SortedKeys(S) ==
    IF S = {} THEN <<>>
    ELSE LET k == CHOOSE x \in S : \A y \in S : TypeRank(x) <= TypeRank(y)
         IN <<k>> \o SortedKeys(S \ {k})

\* The distinct types in the order of their first row.
RECURSIVE FirstSeen(_, _)
FirstSeen(df, seen) ==
    IF df = <<>> THEN <<>>
    ELSE IF Head(df).PermitTypeMapped \in seen THEN FirstSeen(Tail(df), seen)
         ELSE <<Head(df).PermitTypeMapped>>
                  \o FirstSeen(Tail(df), seen \cup {Head(df).PermitTypeMapped})

Group(df, k) ==
    LET in(r) == r.PermitTypeMapped = k
    IN SelectSeq(df, in)

\* a sorts strictly before b in descending order of count.
CountBefore(a, b) == a.count > b.count

RECURSIVE InsertByCount(_, _)
InsertByCount(x, xs) ==
    IF xs = <<>> THEN <<x>>
    ELSE IF CountBefore(x, Head(xs)) THEN <<x>> \o xs
         ELSE <<Head(xs)>> \o InsertByCount(x, Tail(xs))

RECURSIVE SortByCount(_)
SortByCount(rows) ==
    IF rows = <<>> THEN <<>>
    ELSE InsertByCount(rows[Len(rows)], SortByCount(SubSeq(rows, 1, Len(rows) - 1)))

\* df['PermitTypeMapped'].value_counts(): rows per type, most frequent first.
ValueCounts(df) ==
    LET keys == FirstSeen(df, {})
    IN SortByCount([j \in 1..Len(keys) |->
                       [PermitTypeMapped |-> keys[j], count |-> Len(Group(df, keys[j]))]])

\* A variant of the count: the size of the group, null costs included (the
\* 'size' aggregate).
GroupSize(g) == Len(g)

\* The 'count' aggregate of the EstProjectCost column of one group.
GroupCount(g) == SeriesCount(g)

\* groupby('PermitTypeMapped')['EstProjectCost'].agg(['mean','median','count'])
AggByType(df) ==
    LET keys == SortedKeys(Types(df))
    IN [j \in 1..Len(keys) |->
           LET g == Group(df, keys[j])
           IN [PermitTypeMapped |-> keys[j],
               mean |-> SeriesMean(g),
               median |-> SeriesMedian(g),
               count |-> GroupCount(g)]]

\* a sorts strictly before b in descending order of mean, NaN last.
MeanBefore(a, b) ==
    /\ ~IsNull(a.mean)
    /\ (IsNull(b.mean) \/ FracGreater(a.mean[1], b.mean[1]))

RECURSIVE InsertByMean(_, _)
InsertByMean(x, xs) ==
    IF xs = <<>> THEN <<x>>
    ELSE IF MeanBefore(x, Head(xs)) THEN <<x>> \o xs
         ELSE <<Head(xs)>> \o InsertByMean(x, Tail(xs))

RECURSIVE SortByMean(_)
SortByMean(rows) ==
    IF rows = <<>> THEN <<>>
    ELSE InsertByMean(rows[Len(rows)], SortByMean(SubSeq(rows, 1, Len(rows) - 1)))

\* cost_by_type after sort_values('mean', ascending=False).
CostByType(df) == SortByMean(AggByType(df))

-----------------------------------------------------------------------------
(* create_map: the markers for high-value permits (line 141).              *)

\* Series.quantile(0.95), linear interpolation between the order statistics
\* around position (n - 1) * 0.95, as a fraction over 100; NaN when the
\* column holds no number.
Quantile95(df) ==
    LET xs == Sorted(Costs(df))
        n == Len(xs)
        h == (n - 1) * 95
        i == h \div 100
        r == h % 100
    IN IF n = 0 THEN NaN
       ELSE IF r = 0 THEN Some(<<100 * xs[i + 1], 100>>)
            ELSE Some(<<100 * xs[i + 1] + r * (xs[i + 2] - xs[i + 1]), 100>>)

\* The mask with >= in place of >: a variant that would mark a record at the
\* threshold.
AtLeast(cost, q) ==
    ~IsNull(cost) /\ ~IsNull(q) /\ ~FracGreater(q[1], <<cost[1], 1>>)

\* One cell of the mask df['EstProjectCost'] > threshold; NaN compares False.
Above(cost, q) ==
    ~IsNull(cost) /\ ~IsNull(q) /\ FracGreater(<<cost[1], 1>>, q[1])

LargePermits(df) ==
    LET q == Quantile95(df)
        big(r) == Above(r.EstProjectCost, q)
    IN SelectSeq(df, big)

-----------------------------------------------------------------------------
(* generate_summary_stats (lines 169-176).                                 *)

\* The types with the largest number of rows.
ModalTypes(df) ==
    {k \in Types(df) :
        \A j \in Types(df) : Len(Group(df, k)) >= Len(Group(df, j))}

\* A variant of the mode: the modal types in the order of their first row.
ModeFirstSeen(df) ==
    LET modal(k) == k \in ModalTypes(df)
    IN SelectSeq(FirstSeen(df, {}), modal)

\* Series.mode(): the modal values, sorted.
Mode(df) == SortedKeys(ModalTypes(df))

\* strftime('%Y-%m-%d') of a timestamp.
FormatDate(t) == CHOOSE s \in DateText : IsDateText(s) /\ DateValue(s) = t

\* mode().iloc[0] raises IndexError on an empty frame; nothing else in the
\* dictionary is reached then.
StatsRaises(df) == Mode(df) = <<>>

SummaryStats(df) ==
    LET ds == Sorted(Dates(df))
    IN [total_permits |-> Len(df),
        total_value |-> SeriesSum(df),
        avg_value |-> SeriesMean(df),
        median_value |-> SeriesMedian(df),
        most_common_type |-> Mode(df)[1],
        date_range |-> <<FormatDate(ds[1]), FormatDate(ds[Len(ds)])>>]

-----------------------------------------------------------------------------
(* The run of main().                                                      *)

VARIABLES
    csv,              \* building_permits.csv as it is on disk
    installed,        \* whether every required package can be imported
    names_bound,      \* whether pd, px, folium, HeatMap and datetime resolve
                      \* as globals of the module
    pc,               \* the statement of main() that runs next
    now,              \* the value datetime.now() returned at line 54
    parsed,           \* df after the conversions of lines 42 and 45
    df,               \* the frame load_and_clean_data returned
    monthly_permits,  \* create_time_series, line 68
    permit_counts,    \* create_permit_type_analysis, line 96
    cost_by_type,     \* create_permit_type_analysis, line 106
    large_permits,    \* create_map, line 141
    stats,            \* generate_summary_stats, line 169
    dirs,             \* directories created
    files,            \* output files written
    error,            \* the exception raised, with the function that raised it
    started,          \* the stage functions called, in call order
    finished,         \* the stage functions that returned, in return order
    success_printed,  \* whether lines 220-225 ran
    exit_status       \* the exit status of the process once it has ended

vars == <<csv, installed, names_bound, pc, now, parsed, df, monthly_permits,
          permit_counts, cost_by_type, large_permits, stats, dirs, files,
          error, started, finished, success_printed, exit_status>>

\* A local that has not been assigned yet.
Unset == <<>>

\* main() binds pd, px, folium, HeatMap, np and datetime with import statements
\* inside its own body (lines 198-203): they are locals of main(), and the
\* stage functions look the names up as module globals.  Run as a script the
\* module never binds them; they resolve only if an importing program has
\* set them on the module.
Init ==
    /\ csv \in CsvFiles
    /\ installed \in BOOLEAN
    /\ names_bound \in BOOLEAN
    /\ pc = "check_dependencies"
    /\ now = Unset
    /\ parsed = Unset
    /\ df = Unset
    /\ monthly_permits = Unset
    /\ permit_counts = Unset
    /\ cost_by_type = Unset
    /\ large_permits = Unset
    /\ stats = Unset
    /\ dirs = {}
    /\ files = {}
    /\ error = Unset
    /\ started = <<>>
    /\ finished = <<>>
    /\ success_printed = FALSE
    /\ exit_status = Unset

\* A variant of the control flow: the next statement runs whatever the stage
\* call did (a handler that swallows the exception).
FallThrough(raised, next) == next

\* Where main() goes after a stage call: an exception leaves the try body
\* for the handler of line 227, a return reaches the next statement.
After(raised, next) == IF raised THEN "except" ELSE next

\* The stage `stage` raises `type`: it is logged and re-raised to main().
Raise(stage, type, next) ==
    /\ error' = Some([stage |-> stage, type |-> type])
    /\ started' = Append(started, stage)
    /\ pc' = After(TRUE, next)
    /\ UNCHANGED <<finished, success_printed, exit_status>>

\* The stage `stage` returns.
Return(stage, next) ==
    /\ started' = Append(started, stage)
    /\ finished' = Append(finished, stage)
    /\ pc' = After(FALSE, next)
    /\ UNCHANGED <<error, success_printed, exit_status>>

\* check_dependencies (lines 10-26): sys.exit(1) at the first failed import.
CheckDependencies ==
    /\ pc = "check_dependencies"
    /\ IF installed
       THEN /\ pc' = "makedirs"
            /\ UNCHANGED <<error, exit_status>>
       ELSE /\ pc' = "exited"
            /\ error' = Some([stage |-> "check_dependencies", type |-> "SystemExit"])
            /\ exit_status' = Some(1)
    /\ UNCHANGED <<csv, installed, names_bound, now, parsed, df, monthly_permits,
                   permit_counts, cost_by_type, large_permits, stats, dirs,
                   files, started, finished, success_printed>>

\* os.makedirs('visualizations', exist_ok=True), line 207.
MakeDirs ==
    /\ pc = "makedirs"
    /\ dirs' = dirs \cup {"visualizations"}
    /\ pc' = "load_and_clean_data"
    /\ UNCHANGED <<csv, installed, names_bound, now, parsed, df, monthly_permits,
                   permit_counts, cost_by_type, large_permits, stats, files,
                   error, started, finished, success_printed, exit_status>>

\* load_and_clean_data (lines 28-62).
LoadAndCleanData ==
    /\ pc = "load_and_clean_data"
    /\ IF ~csv.exists
       THEN \* line 35: SystemExit is no Exception, neither handler catches it
            /\ error' = Some([stage |-> "load_and_clean_data", type |-> "SystemExit"])
            /\ started' = Append(started, "load_and_clean_data")
            /\ pc' = "exited"
            /\ exit_status' = Some(1)
            /\ UNCHANGED <<now, parsed, df, finished, success_printed>>
       ELSE IF ~names_bound
       THEN \* line 38: pd is not defined
            /\ Raise("load_and_clean_data", "NameError", "create_time_series")
            /\ UNCHANGED <<now, parsed, df>>
       ELSE IF ~csv.columns
       THEN \* line 42: no column 'AppliedDate'
            /\ Raise("load_and_clean_data", "KeyError", "create_time_series")
            /\ UNCHANGED <<now, parsed, df>>
       ELSE IF ToDatetimeRaises(ReadCsv(csv.rows))
       THEN \* line 42: a cell that is no date
            /\ Raise("load_and_clean_data", "ValueError", "create_time_series")
            /\ UNCHANGED <<now, parsed, df>>
       ELSE \E t \in Nows :
            /\ now' = Some(t)
            /\ parsed' = Some(ConvertColumns(ReadCsv(csv.rows)))
            /\ df' = Some(CleanData(ConvertColumns(ReadCsv(csv.rows)), t))
            /\ Return("load_and_clean_data", "create_time_series")
    /\ UNCHANGED <<csv, installed, names_bound, monthly_permits, permit_counts,
                   cost_by_type, large_permits, stats, dirs, files>>

\* create_time_series (lines 64-89).
CreateTimeSeries ==
    /\ pc = "create_time_series"
    /\ monthly_permits' = Some(MonthlyPermits(df[1]))
    /\ files' = files \cup {"visualizations/permits_time.html"}
    /\ Return("create_time_series", "create_permit_type_analysis")
    /\ UNCHANGED <<csv, installed, names_bound, now, parsed, df, permit_counts,
                   cost_by_type, large_permits, stats, dirs>>

\* create_permit_type_analysis (lines 91-119).
CreatePermitTypeAnalysis ==
    /\ pc = "create_permit_type_analysis"
    /\ permit_counts' = Some(ValueCounts(df[1]))
    /\ cost_by_type' = Some(CostByType(df[1]))
    /\ files' = files \cup {"visualizations/permit_types.html",
                            "visualizations/cost_analysis.html"}
    /\ Return("create_permit_type_analysis", "create_map")
    /\ UNCHANGED <<csv, installed, names_bound, now, parsed, df, monthly_permits,
                   large_permits, stats, dirs>>

\* create_map (lines 121-162).
CreateMap ==
    /\ pc = "create_map"
    /\ large_permits' = Some(LargePermits(df[1]))
    /\ dirs' = dirs \cup {"visualizations"}
    /\ files' = files \cup {"visualizations/permits_map.html"}
    /\ Return("create_map", "generate_summary_stats")
    /\ UNCHANGED <<csv, installed, names_bound, now, parsed, df, monthly_permits,
                   permit_counts, cost_by_type, stats>>

\* generate_summary_stats (lines 164-193).
GenerateSummaryStats ==
    /\ pc = "generate_summary_stats"
    /\ IF StatsRaises(df[1])
       THEN \* line 174: mode() is empty, iloc[0] is out of bounds
            /\ Raise("generate_summary_stats", "IndexError", "print_success")
            /\ UNCHANGED <<stats, files>>
       ELSE /\ stats' = Some(SummaryStats(df[1]))
            /\ files' = files \cup {"statistics.md"}
            /\ Return("generate_summary_stats", "print_success")
    /\ UNCHANGED <<csv, installed, names_bound, now, parsed, df, monthly_permits,
                   permit_counts, cost_by_type, large_permits, dirs>>

\* Lines 220-225, after which main() returns and the interpreter exits with 0.
PrintSuccess ==
    /\ pc = "print_success"
    /\ success_printed' = TRUE
    /\ pc' = "exited"
    /\ exit_status' = Some(0)
    /\ UNCHANGED <<csv, installed, names_bound, now, parsed, df, monthly_permits,
                   permit_counts, cost_by_type, large_permits, stats, dirs,
                   files, error, started, finished>>

\* The handler of main(), lines 227-229.
MainExcept ==
    /\ pc = "except"
    /\ pc' = "exited"
    /\ exit_status' = Some(1)
    /\ UNCHANGED <<csv, installed, names_bound, now, parsed, df, monthly_permits,
                   permit_counts, cost_by_type, large_permits, stats, dirs,
                   files, error, started, finished, success_printed>>

Next ==
    \/ CheckDependencies
    \/ MakeDirs
    \/ LoadAndCleanData
    \/ CreateTimeSeries
    \/ CreatePermitTypeAnalysis
    \/ CreateMap
    \/ GenerateSummaryStats
    \/ PrintSuccess
    \/ MainExcept

Spec == Init /\ [][Next]_vars

-----------------------------------------------------------------------------
(* Properties.                                                             *)

Stages ==
    <<"load_and_clean_data", "create_time_series", "create_permit_type_analysis",
      "create_map", "generate_summary_stats">>

Called(stage) == \E k \in 1..Len(started) : started[k] = stage

Returned(stage) == \E k \in 1..Len(finished) : finished[k] = stage

Artifacts ==
    {"visualizations/permits_time.html", "visualizations/permit_types.html",
     "visualizations/cost_analysis.html", "visualizations/permits_map.html",
     "statistics.md"}

\* C1: the frame load_and_clean_data returns holds only parsed records, each
\* with a latitude, a longitude and an AppliedDate strictly after the cutoff
\* (now minus two years); a parsed record with a null latitude, longitude or
\* AppliedDate, or with AppliedDate <= cutoff, is not in it.
C1_CleanIsFilteredSubset ==
    df # Unset =>
        LET d == df[1]
            p == parsed[1]
            cutoff == TwoYearsAgo(now[1])
        IN /\ \A i \in 1..Len(d) : \E j \in 1..Len(p) : p[j] = d[i]
           /\ \A i \in 1..Len(d) :
                /\ d[i].Latitude # NaN
                /\ d[i].Longitude # NaN
                /\ d[i].AppliedDate # NaN
                /\ d[i].AppliedDate[1] > cutoff
           /\ \A j \in 1..Len(p) :
                (\/ p[j].Latitude = NaN
                 \/ p[j].Longitude = NaN
                 \/ p[j].AppliedDate = NaN
                 \/ p[j].AppliedDate[1] <= cutoff)
                    => \A i \in 1..Len(d) : d[i].idx # p[j].idx

\* C1 witness: a returned frame that kept a record and dropped one whose
\* AppliedDate is exactly the cutoff and one without a latitude.
C1_Witness ==
    /\ df # Unset
    /\ Len(df[1]) >= 1
    /\ \E j \in 1..Len(parsed[1]) :
          /\ parsed[1][j].AppliedDate # NaN
          /\ parsed[1][j].AppliedDate[1] = TwoYearsAgo(now[1])
    /\ \E j \in 1..Len(parsed[1]) : parsed[1][j].Latitude = NaN

\* C2 (as claimed): once load_and_clean_data has run on a file that has the
\* required columns, there is a parsed frame with one record per input row,
\* an unparseable AppliedDate or a non-numeric or empty EstProjectCost is
\* null in it, and no exception was raised by the conversions.
C2_ParsingKeepsEveryRow ==
    (names_bound /\ csv.exists /\ csv.columns /\ Called("load_and_clean_data")) =>
        /\ error = Unset
        /\ parsed # Unset
        /\ Len(parsed[1]) = Len(csv.rows)
        /\ \A i \in 1..Len(csv.rows) :
              /\ ~IsDateText(csv.rows[i].AppliedDate) => parsed[1][i].AppliedDate = NaN
              /\ ~IsNumberText(csv.rows[i].EstProjectCost)
                    => parsed[1][i].EstProjectCost = NaN

\* The clean records whose AppliedDate lies in the month of timestamp t.
InMonthOf(d, t) == {i \in 1..Len(d) : d[i].AppliedDate[1] \div 100 = t \div 100}

\* C3 (as claimed): monthly_permits has exactly one entry per calendar month
\* that holds a clean record, in ascending order, with the number of clean
\* records of that month; no entry has the count zero.
C3_MonthlyCountsSparse ==
    monthly_permits # Unset =>
        LET mp == monthly_permits[1]
            d == df[1]
        IN /\ \A k \in 1..Len(mp) - 1 : mp[k].Date < mp[k + 1].Date
           /\ \A i \in 1..Len(d) : \E k \in 1..Len(mp) : i \in InMonthOf(d, mp[k].Date)
           /\ \A k \in 1..Len(mp) :
                /\ mp[k].NumberOfPermits = Cardinality(InMonthOf(d, mp[k].Date))
                /\ mp[k].NumberOfPermits > 0

\* C3 (amended): monthly_permits has exactly one entry per calendar month from
\* the month of the earliest AppliedDate to the month of the latest one, in
\* ascending order, each with the number of clean records of that month; a
\* month in between that holds no clean record has an entry with the count 0.
C3_MonthlyCountsDense ==
    monthly_permits # Unset =>
        LET mp == monthly_permits[1]
            d == df[1]
            ym(t) == t \div 100
            held == {ym(d[i].AppliedDate[1]) : i \in 1..Len(d)}
            months == {m \in UNION {a..b : a, b \in held} : m % 100 \in 1..12}
        IN /\ \A k \in 1..Len(mp) - 1 : mp[k].Date < mp[k + 1].Date
           /\ {ym(mp[k].Date) : k \in 1..Len(mp)} = months
           /\ \A k \in 1..Len(mp) :
                mp[k].NumberOfPermits = Cardinality(InMonthOf(d, mp[k].Date))

\* C3 witness: clean records in January and March 2024 and none in February,
\* for which the series holds an entry with the count 0.
C3_Witness ==
    /\ monthly_permits # Unset
    /\ Len(monthly_permits[1]) = 3
    /\ monthly_permits[1][2].NumberOfPermits = 0
    /\ monthly_permits[1][1].NumberOfPermits > 0

\* The clean records of type k, and those among them with a numeric cost.
OfType(d, k) == {i \in 1..Len(d) : d[i].PermitTypeMapped = k}
Priced(d, k) == {i \in OfType(d, k) : d[i].EstProjectCost # NaN}

RECURSIVE CostSum(_, _)
CostSum(d, I) ==
    IF I = {} THEN 0
    ELSE LET i == CHOOSE x \in I : TRUE
         IN d[i].EstProjectCost[1] + CostSum(d, I \ {i})

\* The fraction m is the mean, respectively a median, of the costs of the
\* records I of d.
IsMeanOf(m, d, I) == m[1] * Cardinality(I) = CostSum(d, I) * m[2]
IsMedianOf(m, d, I) ==
    /\ 2 * Cardinality({i \in I : d[i].EstProjectCost[1] * m[2] <= m[1]}) >= Cardinality(I)
    /\ 2 * Cardinality({i \in I : d[i].EstProjectCost[1] * m[2] >= m[1]}) >= Cardinality(I)

\* One row per type, mean and median over the numeric costs of the type, the
\* rows in descending order of mean with the undefined means last.
CostRowsWellFormed(rows, d) ==
    /\ Len(rows) = Cardinality({d[i].PermitTypeMapped : i \in 1..Len(d)})
    /\ \A i \in 1..Len(d) : \E k \in 1..Len(rows) :
          rows[k].PermitTypeMapped = d[i].PermitTypeMapped
    /\ \A k \in 1..Len(rows) :
          LET I == Priced(d, rows[k].PermitTypeMapped)
          IN IF I = {}
             THEN rows[k].mean = NaN /\ rows[k].median = NaN
             ELSE /\ rows[k].mean # NaN /\ IsMeanOf(rows[k].mean[1], d, I)
                  /\ rows[k].median # NaN /\ IsMedianOf(rows[k].median[1], d, I)
    /\ \A a, b \in 1..Len(rows) :
          (a < b /\ rows[b].mean # NaN) =>
              /\ rows[a].mean # NaN
              /\ rows[a].mean[1][1] * rows[b].mean[1][2]
                    >= rows[b].mean[1][1] * rows[a].mean[1][2]

\* C4 (as claimed): in cost_by_type the count of a type is the number of clean
\* records of the type, those with a null cost included, mean and median are
\* over the non-null costs, and the rows are in descending order of mean.
C4_CountIsGroupSize ==
    cost_by_type # Unset =>
        /\ CostRowsWellFormed(cost_by_type[1], df[1])
        /\ \A k \in 1..Len(cost_by_type[1]) :
              cost_by_type[1][k].count
                  = Cardinality(OfType(df[1], cost_by_type[1][k].PermitTypeMapped))

\* C4 (amended): in cost_by_type the count of a type is the number of clean
\* records of the type whose cost is not null, the same records mean and
\* median are computed over; the rows are in descending order of mean, the
\* types without any numeric cost (mean undefined, count 0) last.
C4_CountIsNonNullCosts ==
    cost_by_type # Unset =>
        /\ CostRowsWellFormed(cost_by_type[1], df[1])
        /\ \A k \in 1..Len(cost_by_type[1]) :
              cost_by_type[1][k].count
                  = Cardinality(Priced(df[1], cost_by_type[1][k].PermitTypeMapped))

\* C4 witness: two types, the one with the larger mean listed first, and a
\* type that has a record with a null cost and a record with a numeric one.
C4_Witness ==
    /\ cost_by_type # Unset
    /\ Len(cost_by_type[1]) = 2
    /\ cost_by_type[1][1].PermitTypeMapped = "New"
    /\ cost_by_type[1][2].mean # NaN
    /\ \E k \in 1..2 :
          /\ cost_by_type[1][k].count = 1
          /\ Cardinality(OfType(df[1], cost_by_type[1][k].PermitTypeMapped)) = 2

\* C5: large_permits is exactly the clean records whose cost is not null and
\* strictly greater than the 95th percentile of the non-null costs: a part of
\* the clean set without any null-cost record, without any record at the
\* threshold, leaving out no record above it; it is empty, and create_map
\* raises nothing, when the clean set is empty or has no numeric cost.
C5_OutliersAboveThreshold ==
    large_permits # Unset =>
        LET d == df[1]
            big == large_permits[1]
            q == Quantile95(d)
            chosen == {big[k].idx : k \in 1..Len(big)}
        IN /\ \A k \in 1..Len(big) : \E i \in 1..Len(d) : d[i] = big[k]
           /\ \A i \in 1..Len(d) :
                d[i].idx \in chosen <=>
                    /\ d[i].EstProjectCost # NaN
                    /\ q # NaN
                    /\ d[i].EstProjectCost[1] * q[1][2] > q[1][1]
           /\ (\A i \in 1..Len(d) : d[i].EstProjectCost = NaN) =>
                /\ big = <<>>
                /\ Returned("create_map")

\* C5 witness: a marker is placed although the clean set also holds a record
\* with a null cost.
C5_Witness ==
    /\ large_permits # Unset
    /\ large_permits[1] # <<>>
    /\ \E i \in 1..Len(df[1]) : df[1][i].EstProjectCost = NaN

\* C6 (as claimed): a run whose input file exists and whose clean set is empty
\* ends with an error raised by generate_summary_stats that is not the
\* missing-file exit, with a non-zero exit status, and with no output file
\* written.
C6_EmptyCleanSetLeavesNoArtifact ==
    (pc = "exited" /\ csv.exists /\ df # Unset /\ df[1] = <<>>) =>
        /\ error # Unset
        /\ error[1].stage = "generate_summary_stats"
        /\ error[1].type # "SystemExit"
        /\ exit_status # Some(0)
        /\ files \cap Artifacts = {}

\* C7 (as claimed): when generate_summary_stats is called on a clean set that
\* is not empty and has no numeric cost, it raises an error instead of
\* producing avg_value and median_value, and the outlier set is empty.
C7_AllNullCostsRaise ==
    (Called("generate_summary_stats") /\ df[1] # <<>> /\ Costs(df[1]) = <<>>) =>
        /\ large_permits = Some(<<>>)
        /\ error # Unset
        /\ error[1].stage = "generate_summary_stats"
        /\ stats = Unset

\* The number of clean records of type k, and the types with the most records.
Tally(d, k) == Cardinality(OfType(d, k))
Commonest(d) ==
    {d[i].PermitTypeMapped : i \in {j \in 1..Len(d) :
        \A h \in 1..Len(d) : Tally(d, d[j].PermitTypeMapped) >= Tally(d, d[h].PermitTypeMapped)}}

\* The position of the first clean record of type k.
FirstRow(d, k) == CHOOSE i \in OfType(d, k) : \A j \in OfType(d, k) : i <= j

\* C8 (as claimed): most_common_type is a type with the largest number of clean
\* records, and among several such types the one whose first record comes
\* first in the clean set.
C8_ModeFirstEncountered ==
    stats # Unset =>
        /\ stats[1].most_common_type \in Commonest(df[1])
        /\ \A k \in Commonest(df[1]) :
              FirstRow(df[1], stats[1].most_common_type) <= FirstRow(df[1], k)

\* C8 (amended): most_common_type is a type with the largest number of clean
\* records, and among several such types the alphabetically smallest one,
\* wherever its records stand in the clean set.
C8_ModeAlphabeticallyFirst ==
    stats # Unset =>
        /\ stats[1].most_common_type \in Commonest(df[1])
        /\ \A k \in Commonest(df[1]) :
              TypeRank(stats[1].most_common_type) <= TypeRank(k)

\* C8 witness: two types tie and the clean set starts with a record of the
\* alphabetically larger one.
C8_Witness ==
    /\ stats # Unset
    /\ Cardinality(Commonest(df[1])) = 2
    /\ df[1][1].PermitTypeMapped = "New"
    /\ stats[1].most_common_type = "Addition"

\* C9: the stage functions are called in the order load_and_clean_data,
\* create_time_series, create_permit_type_analysis, create_map,
\* generate_summary_stats, each only after the one before it has returned;
\* once a stage has raised (or the input file is absent) it stays the last
\* stage called, the success message is not printed, and the run ends with
\* exit status 1.
C9_StagesInOrderAndFailFast ==
    /\ started = SubSeq(Stages, 1, Len(started))
    /\ finished = SubSeq(Stages, 1, Len(finished))
    /\ Len(finished) <= Len(started)
    /\ Len(started) <= Len(finished) + 1
    /\ Len(started) = Len(finished) + 1 => error # Unset
    /\ error # Unset =>
          /\ pc \in {"except", "exited"}
          /\ ~success_printed
          /\ error[1].stage \in {Stages[k] : k \in 1..5} =>
                /\ started = Append(finished, error[1].stage)
          /\ pc = "exited" => exit_status = Some(1)
    /\ success_printed => finished = Stages
    /\ (pc = "exited" /\ ~csv.exists) => exit_status = Some(1) /\ Len(finished) = 0

\* C9 witness: the run has ended with status 1 after generate_summary_stats
\* raised, the four stages before it having returned.
C9_Witness ==
    /\ pc = "exited"
    /\ error # Unset
    /\ error[1].stage = "generate_summary_stats"
    /\ Len(finished) = 4
    /\ exit_status = Some(1)

\* The file holds a row that passes both filters at every clock value and has
\* a numeric cost, and no row with a malformed date.
YieldsPricedCleanSet(file) ==
    /\ file.exists
    /\ file.columns
    /\ \A i \in 1..Len(file.rows) : file.rows[i].AppliedDate \in {""} \cup {x \in DateText : IsDateText(x)}
    /\ \E i \in 1..Len(file.rows) :
          /\ file.rows[i].Latitude # ""
          /\ file.rows[i].Longitude # ""
          /\ IsNumberText(file.rows[i].EstProjectCost)
          /\ IsDateText(file.rows[i].AppliedDate)
          /\ \A t \in Nows : DateValue(file.rows[i].AppliedDate) > TwoYearsAgo(t)

\* C10 (as claimed): a run of main() with every dependency installed and an
\* input file that has the required columns and yields a non-empty clean set
\* with a numeric cost ends completed: every stage function returned, the five
\* output files are written, the success message is printed and the exit
\* status is not 1.
C10_GoodInputCompletes ==
    (pc = "exited" /\ installed /\ YieldsPricedCleanSet(csv)) =>
        /\ finished = Stages
        /\ Artifacts \subseteq files
        /\ success_printed
        /\ exit_status # Some(1)

====
